---- MODULE Spec2Model ----
(***************************************************************************)
(* Model of cmd/server/runner.go of openshift-healthchecker: the           *)
(* supervisor (startChecks / stopChecks), one runCheck goroutine per       *)
(* active check, the script executor, the result parser and the metric     *)
(* lifecycle (register / cleanup / unregister) against the Prometheus      *)
(* default registry.                                                       *)
(*                                                                         *)
(* Text is modelled as a sequence of one-character strings, so that the    *)
(* parser works on characters as the Go code does.                         *)
(***************************************************************************)
EXTENDS Integers, Sequences, FiniteSets, TLC

VARIABLES
    active,       \* the names of the checks of app.checkList with Active set
    now,          \* time.Now().Unix(), in seconds since the first startChecks
    supPc,        \* where the caller of startChecks / stopChecks is
    waitIdx,      \* stopChecks: index in the list of the check it waits for
    stopchan,     \* the package variable stopchan: "nil", "open" or "closed"
    stoppedchan,  \* per check: check.stoppedchan, "open" or "closed"
    pc,           \* per check: position of its runCheck goroutine
    check,        \* per check: runCheck's own copy of the Check
    sleepLeft,    \* per check: seconds left of time.Sleep(1 * time.Second)
    sink,         \* per check name: what the Prometheus registry holds for it
    panicking,    \* per check: the goroutine is unwinding because of a panic
    aborted,      \* an unrecovered panic has ended the process
    exitReason,   \* per check: which select case made the loop return
    teardowns,    \* per check: teardown calls made by the current loop
    ticks,        \* per check: ticks completed by the current loop
    idleSince,    \* per check: second since which the loop only polls (0 in a tick)
    err,          \* per check: err of the tick's runBashScript call
    call          \* a function of runner.go called alone: its argument and return

vars == <<active, now, supPc, waitIdx, stopchan, stoppedchan, pc, check,
          sleepLeft, sink, panicking, aborted, exitReason,
          teardowns, ticks, idleSince, err, call>>

---------------------------------------------------------------------------
(* Bounds and program constants *)

\* The clock stops counting at MaxTime (time still passes for sleepers).
MaxTime == 11

\* The most labels of a result line given to convertResult alone.
MaxLabels == 2

\* case <-time.After(10 * time.Second)
TimeoutSeconds == 10

\* time.Sleep(1 * time.Second)
SleepSeconds == 1

---------------------------------------------------------------------------
(* app.checkList: the configured checks, in list order *)

CheckList == <<"disk", "hist", "load">>

Checks == {CheckList[i] : i \in 1..Len(CheckList)}

CheckCfg ==
    [c \in Checks |->
        CASE c = "disk" -> [Name |-> "disk", MetricType |-> "Gauge",
                            Interval |-> 2]
          [] c = "hist" -> [Name |-> "hist", MetricType |-> "Histogram",
                            Interval |-> 3]
          [] OTHER      -> [Name |-> "load", MetricType |-> "Gauge",
                            Interval |-> 11]]

\* The configurations explored: which checks have Active set.  A loop shares
\* nothing with another loop but stopchan and the process, so the check with
\* the many script results runs alone and two plain ones run side by side.
ActiveSets == {{"disk"}, {"hist", "load"}}

\* The scheduler-owned fields of check c as the check list holds them (the
\* list is built outside runner.go): no result, no metric, and a first run
\* that is due from the first startChecks on.
NewCheck(c) ==
    [nextrun |-> 0, resultLast |-> <<>>, resultCurrent |-> <<>>,
     metric |-> "nil"]

\* A nil error.
NoErr == [failed |-> FALSE, detail |-> <<>>]

\* Nothing registered under a check's name.
NoVec == [registered |-> FALSE, names |-> {}, series |-> {}]

---------------------------------------------------------------------------
(* Text helpers: package strings and strconv *)

\* Position of the first ch in s, 0 when s has none.
IndexOf(s, ch) ==
    IF \E i \in 1..Len(s) : s[i] = ch
    THEN CHOOSE i \in 1..Len(s) :
             s[i] = ch /\ \A j \in 1..(i - 1) : s[j] # ch
    ELSE 0

\* strings.Contains(s, ch) for a one-character ch
Contains(s, ch) == IndexOf(s, ch) # 0

\* strings.Split(s, sep) for a one-character sep: every piece between
\* separators, so Split("", sep) is the one-element list [""].
RECURSIVE Split(_, _)
Split(s, sep) ==
    LET i == IndexOf(s, sep)
    IN  IF i = 0 THEN <<s>>
        ELSE <<SubSeq(s, 1, i - 1)>> \o Split(SubSeq(s, i + 1, Len(s)), sep)

\* The cut at every separator, as strings.Split makes it.
SplitEvery(s, sep) == Split(s, sep)

\* strings.SplitN(s, sep, 2): cut at the first separator only.
SplitN2(s, sep) ==
    LET i == IndexOf(s, sep)
    IN  IF i = 0 THEN <<s>>
        ELSE <<SubSeq(s, 1, i - 1), SubSeq(s, i + 1, Len(s))>>

DigitChars == {"0", "1", "2", "3", "4", "5", "6", "7", "8", "9"}

DigitVal(ch) ==
    CASE ch = "0" -> 0 [] ch = "1" -> 1 [] ch = "2" -> 2 [] ch = "3" -> 3
      [] ch = "4" -> 4 [] ch = "5" -> 5 [] ch = "6" -> 6 [] ch = "7" -> 7
      [] ch = "8" -> 8 [] OTHER -> 9

RECURSIVE DecimalValue(_)
DecimalValue(s) ==
    IF s = <<>> THEN 0
    ELSE 10 * DecimalValue(SubSeq(s, 1, Len(s) - 1)) + DigitVal(s[Len(s)])

\* metricValue, _ = strconv.ParseFloat(s, 64): the error is dropped, and on an
\* error the value is 0. The texts of this model are unsigned decimal
\* integers or not numbers at all.
ParseFloat(s) ==
    IF s # <<>> /\ \A i \in 1..Len(s) : s[i] \in DigitChars
    THEN DecimalValue(s)
    ELSE 0

---------------------------------------------------------------------------
(* Label-sets: a map[string]string is the set of its <<key, value>> pairs, *)
(* at most one pair per key, so that equality of two label-sets is         *)
(* reflect.DeepEqual of the two maps.                                      *)

EmptyLabels == {}

\* labels[k] = v
MapPut(labels, k, v) == {p \in labels : p[1] # k} \cup {<<k, v>>}

\* convertMapKeysToSlice: the keys of the map (the order is not kept, the
\* vector is created with them as its label names)
convertMapKeysToSlice(labels) == {p[1] : p \in labels}

---------------------------------------------------------------------------
(* Result Parser *)

\* The loop body of convertResult over splitLabels[i..]: panics with an
\* index out of range at splitLabel[1] when a label has no "=".
RECURSIVE ParseLabels(_, _, _)
ParseLabels(splitLabels, i, labels) ==
    IF i > Len(splitLabels) THEN [panic |-> FALSE, labels |-> labels]
    ELSE LET splitLabel == SplitN2(splitLabels[i], "=")
         IN  IF Len(splitLabel) < 2
             THEN [panic |-> TRUE, labels |-> labels]
             ELSE ParseLabels(splitLabels, i + 1,
                              MapPut(labels, splitLabel[1], splitLabel[2]))

\* convertResult(result): value and labels of one line, or a panic.
convertResult(result) ==
    IF Contains(result, "|")
    THEN LET splitResult == Split(result, "|")
             parsed == ParseLabels(Split(splitResult[2], ","), 1, EmptyLabels)
         IN  [panic |-> parsed.panic,
              value |-> IF parsed.panic THEN 0 ELSE ParseFloat(splitResult[1]),
              labels |-> parsed.labels]
    ELSE [panic |-> FALSE, value |-> ParseFloat(result), labels |-> EmptyLabels]

---------------------------------------------------------------------------
(* Script Executor *)

\* runBashScript with the two tests of the failure branch in the other
\* order: stderr before stdout.
runBashScriptStderrFirst(run) ==
    IF run.runErr # ""
    THEN IF run.stderr # <<>>
         THEN [result |-> <<>>, failed |-> TRUE, detail |-> run.stderr]
         ELSE IF run.out # <<>>
              THEN [result |-> <<>>, failed |-> TRUE, detail |-> run.out]
              ELSE [result |-> <<>>, failed |-> TRUE, detail |-> <<run.runErr>>]
    ELSE [result |-> run.out, failed |-> FALSE, detail |-> <<>>]

\* runBashScript, given what cmd.Run() produced: runErr is "" for a nil
\* error and err.Error() otherwise; out and stderr are the two buffers.
\* The error's message is "Script failed with error: " followed by detail.
runBashScript(run) ==
    IF run.runErr # ""
    THEN IF run.out # <<>>
         THEN [result |-> <<>>, failed |-> TRUE, detail |-> run.out]
         ELSE IF run.stderr # <<>>
              THEN [result |-> <<>>, failed |-> TRUE, detail |-> run.stderr]
              ELSE [result |-> <<>>, failed |-> TRUE, detail |-> <<run.runErr>>]
    ELSE [result |-> run.out, failed |-> FALSE, detail |-> <<>>]

---------------------------------------------------------------------------
(* Metric sink: the part of prometheus.GaugeVec and of the default         *)
(* registry the runner uses.  A vector is [registered, names, series]:     *)
(* whether the registry holds it, its label names, and its live series as  *)
(* a set of [labels, value] records, one per label-set.                    *)

LiveLabels(vec) == {s.labels : s \in vec.series}

\* A label name the registry accepts: not empty, not starting with a digit.
ValidLabelName(name) == name # <<>> /\ name[1] \notin DigitChars

\* MustRegister(NewGaugeVec(opts, names)) succeeds: the descriptor is valid
\* and nothing is registered under the check's name yet.
CanRegister(vec, names) ==
    ~vec.registered /\ \A n \in names : ValidLabelName(n)

\* GaugeVec.With(labels) succeeds: the labels name exactly the vector's
\* label names (With panics otherwise).
CanWith(vec, labels) == convertMapKeysToSlice(labels) = vec.names

\* Set that adds a series and leaves the one the label-set has already.
SetValueAdd(series, labels, value) ==
    series \cup {[labels |-> labels, value |-> value]}

\* GaugeVec.With(labels).Set(value)
SetValue(series, labels, value) ==
    {s \in series : s.labels # labels}
        \cup {[labels |-> labels, value |-> value]}

\* GaugeVec.Delete(labels): the series left, and whether one was deleted.
DeleteLabels(series, labels) ==
    [series |-> {s \in series : s.labels # labels},
     deleted |-> \E s \in series : s.labels = labels]

---------------------------------------------------------------------------
(* Metric Lifecycle Manager *)

\* A vector is made for the first observation of every tick.
FirstOfTick(chk) == Len(chk.resultCurrent) = 1

\* check.metric == nil
MetricIsNil(chk) == chk.metric = "nil"

\* registerMetricsForCheck with With(labels).Set(value) in an else branch of
\* the test of check.metric: the observation that creates the vector is
\* not set.
registerSetsInElse(cfg, chk, vec, value, labels) ==
    LET chk1 == [chk EXCEPT !.resultCurrent = Append(@, labels)]
        names == convertMapKeysToSlice(labels)
    IN  IF cfg.MetricType # "Gauge"
        THEN [check |-> chk1, sink |-> vec, panic |-> FALSE]
        ELSE IF chk1.metric = "nil"
             THEN IF CanRegister(vec, names)
                  THEN [check |-> [chk1 EXCEPT !.metric = "vec"],
                        sink |-> [registered |-> TRUE, names |-> names,
                                  series |-> {}],
                        panic |-> FALSE]
                  ELSE [check |-> [chk1 EXCEPT !.metric = "vec"],
                        sink |-> vec, panic |-> TRUE]
             ELSE IF CanWith(vec, labels)
                  THEN [check |-> chk1,
                        sink |-> [vec EXCEPT
                            !.series = SetValue(@, labels, value)],
                        panic |-> FALSE]
                  ELSE [check |-> chk1, sink |-> vec, panic |-> TRUE]

\* registerMetricsForCheck(check, value, labels): the check and the vector
\* afterwards; panic when MustRegister or With panics.
registerMetricsForCheck(cfg, chk, vec, value, labels) ==
    LET chk1 == [chk EXCEPT !.resultCurrent = Append(@, labels)]
    IN  IF cfg.MetricType = "Gauge"
        THEN LET names == convertMapKeysToSlice(labels)
                 create == MetricIsNil(chk1)
                 regOk == ~create \/ CanRegister(vec, names)
                 chk2 == [chk1 EXCEPT !.metric = "vec"]
                 vec1 == IF create /\ regOk
                         THEN [registered |-> TRUE, names |-> names,
                               series |-> {}]
                         ELSE vec
             IN  IF ~regOk
                 THEN [check |-> chk2, sink |-> vec, panic |-> TRUE]
                 ELSE IF ~CanWith(vec1, labels)
                      THEN [check |-> chk2, sink |-> vec1, panic |-> TRUE]
                      ELSE [check |-> chk2,
                            sink |-> [vec1 EXCEPT
                                !.series = SetValue(@, labels, value)],
                            panic |-> FALSE]
        ELSE IF cfg.MetricType \in {"Counter", "Histogram", "Summary"}
             THEN [check |-> chk1, sink |-> vec, panic |-> FALSE]
             ELSE [check |-> [chk1 EXCEPT !.metric = "nil"], sink |-> vec,
                   panic |-> FALSE]

\* IsStale with remove decided by the last comparison alone.
IsStaleLast(labelsLast, resultCurrent) ==
    resultCurrent = <<>> \/ resultCurrent[Len(resultCurrent)] # labelsLast

\* labelsLast has no equal label-set in resultCurrent (remove stays true).
IsStale(labelsLast, resultCurrent) ==
    \A j \in 1..Len(resultCurrent) : resultCurrent[j] # labelsLast

\* The outer loop ended by the first Delete that finds nothing.
RECURSIVE CleanupStopsAtMiss(_, _, _, _, _)
CleanupStopsAtMiss(cfg, chk, i, series, misses) ==
    IF i > Len(chk.resultLast)
    THEN [series |-> series, misses |-> misses, panic |-> FALSE]
    ELSE IF IsStale(chk.resultLast[i], chk.resultCurrent)
                /\ cfg.MetricType = "Gauge"
         THEN IF chk.metric = "nil"
              THEN [series |-> series, misses |-> misses, panic |-> TRUE]
              ELSE LET d == DeleteLabels(series, chk.resultLast[i])
                   IN  IF d.deleted
                       THEN CleanupStopsAtMiss(cfg, chk, i + 1, d.series,
                                               misses)
                       ELSE [series |-> series, misses |-> misses + 1,
                             panic |-> FALSE]
         ELSE CleanupStopsAtMiss(cfg, chk, i + 1, series, misses)

\* The outer loop of cleanupUnusedDimensions over resultLast[i..]: the
\* series left, the number of Delete calls that found nothing, and panic
\* when the type assertion on a nil check.metric panics.
RECURSIVE CleanupFrom(_, _, _, _, _)
CleanupFrom(cfg, chk, i, series, misses) ==
    IF i > Len(chk.resultLast)
    THEN [series |-> series, misses |-> misses, panic |-> FALSE]
    ELSE IF IsStale(chk.resultLast[i], chk.resultCurrent)
                /\ cfg.MetricType = "Gauge"
         THEN IF chk.metric = "nil"
              THEN [series |-> series, misses |-> misses, panic |-> TRUE]
              ELSE LET d == DeleteLabels(series, chk.resultLast[i])
                   IN  CleanupFrom(cfg, chk, i + 1, d.series,
                                   IF d.deleted THEN misses ELSE misses + 1)
         ELSE CleanupFrom(cfg, chk, i + 1, series, misses)

\* cleanupUnusedDimensions without the test of len(check.resultCurrent).
cleanupNoGuard(cfg, chk, vec) ==
    LET r == CleanupFrom(cfg, chk, 1, vec.series, 0)
    IN  [sink |-> [vec EXCEPT !.series = r.series],
         misses |-> r.misses, panic |-> r.panic]

\* cleanupUnusedDimensions(check)
cleanupUnusedDimensions(cfg, chk, vec) ==
    IF Len(chk.resultCurrent) > 0
    THEN LET r == CleanupFrom(cfg, chk, 1, vec.series, 0)
         IN  [sink |-> [vec EXCEPT !.series = r.series],
              misses |-> r.misses, panic |-> r.panic]
    ELSE [sink |-> vec, misses |-> 0, panic |-> FALSE]

\* unregisterMetricsForCheck without check.metric = nil.
unregisterKeepsHandle(cfg, chk, vec) ==
    IF chk.metric # "nil"
    THEN [check |-> chk,
          sink |-> IF cfg.MetricType = "Gauge" THEN NoVec ELSE vec]
    ELSE [check |-> chk, sink |-> vec]

\* unregisterMetricsForCheck(check)
unregisterMetricsForCheck(cfg, chk, vec) ==
    IF chk.metric # "nil"
    THEN [check |-> [chk EXCEPT !.metric = "nil"],
          sink |-> IF cfg.MetricType = "Gauge" THEN NoVec ELSE vec]
    ELSE [check |-> chk, sink |-> vec]

---------------------------------------------------------------------------
(* What the scripts can do: the outcomes of cmd.Run() per check *)

Out_a1b2 == <<"1", "|", "d", "=", "a", "\n", "2", "|", "d", "=", "b", "\n">>
Out_ax == <<"x", "|", "d", "=", "a">>
Out_b1b2 == <<"1", "|", "d", "=", "b", "\n", "\n", "2", "|", "d", "=", "b">>
Out_c1c2b3 ==
    <<"1", "|", "d", "=", "c", "\n", "2", "|", "d", "=", "c", "\n",
      "3", "|", "d", "=", "b">>
Out_noLabel == <<"5", "|">>
Out_noEq == <<"5", "|", "f", "o", "o">>
Out_bare == <<"7">>
Out_mixed == <<"7", "\n", "1", "|", "e", "=", "a">>

Exited(out) == [runErr |-> "", out |-> out, stderr |-> <<>>]

Failed(out, stderr) ==
    [runErr |-> "exit status 1", out |-> out, stderr |-> stderr]

ProcessRuns(c) ==
    IF c = "disk"
    THEN {Exited(Out_a1b2), Exited(Out_ax), Exited(Out_b1b2),
          Exited(Out_c1c2b3), Exited(Out_noLabel), Exited(<<>>),
          Failed(Out_ax, <<>>), Failed(<<>>, <<"t", "o">>), Failed(<<>>, <<>>)}
    ELSE IF c = "load"
         THEN {Exited(Out_bare), Exited(Out_mixed), Failed(<<>>, <<"t", "o">>)}
         ELSE {Exited(Out_bare), Exited(Out_noEq), Failed(<<>>, <<"t", "o">>)}

---------------------------------------------------------------------------
(* Initial state: the check list is built, nothing runs *)

Built ==
    /\ active \in ActiveSets
    /\ now = 0
    /\ supPc = "idle"
    /\ waitIdx = 0
    /\ stopchan = "nil"
    /\ stoppedchan = [c \in Checks |-> "open"]
    /\ pc = [c \in Checks |-> "none"]
    /\ check = [c \in Checks |-> NewCheck(c)]
    /\ sleepLeft = [c \in Checks |-> 0]
    /\ sink = [c \in Checks |-> NoVec]
    /\ panicking = [c \in Checks |-> FALSE]
    /\ aborted = FALSE
    /\ exitReason = [c \in Checks |-> "none"]
    /\ teardowns = [c \in Checks |-> 0]
    /\ ticks = [c \in Checks |-> 0]
    /\ idleSince = [c \in Checks |-> 0]
    /\ err = [c \in Checks |-> NoErr]

\* No function is called alone.
NoCall == [op |-> "none"]

Init == Built /\ call = NoCall

---------------------------------------------------------------------------
(* Supervisor *)

\* startChecks: a new stopchan, and one runCheck goroutine per active check,
\* each with its own copy of the list's Check.  The caller starts the checks
\* only when no loop of an earlier start is alive.
startChecks ==
    /\ ~aborted
    /\ supPc = "idle"
    /\ \A c \in Checks : pc[c] \in {"none", "stopped"}
    /\ stopchan' = "open"
    /\ pc' = [c \in Checks |-> IF c \in active THEN "select" ELSE pc[c]]
    /\ check' = [c \in Checks |-> NewCheck(c)]
    /\ sleepLeft' = [c \in Checks |-> 0]
    /\ panicking' = [c \in Checks |-> FALSE]
    /\ exitReason' = [c \in Checks |-> "none"]
    /\ teardowns' = [c \in Checks |-> 0]
    /\ ticks' = [c \in Checks |-> 0]
    /\ idleSince' = [c \in Checks |-> IF c \in active THEN now ELSE 0]
    /\ err' = [c \in Checks |-> NoErr]
    /\ supPc' = "running"
    /\ UNCHANGED <<active, call>>
    /\ UNCHANGED <<now, waitIdx, stoppedchan, sink, aborted>>

\* stopChecks, first half: close(stopchan).
stopChecksClose ==
    /\ ~aborted
    /\ supPc = "running"
    /\ stopchan' = "closed"
    /\ supPc' = "waiting"
    /\ waitIdx' = 1
    /\ UNCHANGED <<active, idleSince, call>>
    /\ UNCHANGED <<now, stoppedchan, pc, check, sleepLeft, sink, panicking,
                   aborted, exitReason, teardowns, ticks, err>>

\* The first index from i on where the walk of stopChecks blocks: an active
\* check whose stoppedchan is not closed; Len(CheckList) + 1 when there is none.
RECURSIVE BlocksAt(_)
BlocksAt(i) ==
    IF i > Len(CheckList) THEN i
    ELSE IF CheckList[i] \in active /\ stoppedchan[CheckList[i]] # "closed"
         THEN i
         ELSE BlocksAt(i + 1)

\* stopChecks, the walk through the check list: <-check.stoppedchan blocks
\* until the channel is closed; an inactive check is passed over; after the
\* last check stopChecks returns.
stopChecksWait ==
    /\ ~aborted
    /\ supPc = "waiting"
    /\ BlocksAt(waitIdx) # waitIdx
    /\ IF BlocksAt(waitIdx) > Len(CheckList)
       THEN supPc' = "idle" /\ waitIdx' = 0
       ELSE supPc' = supPc /\ waitIdx' = BlocksAt(waitIdx)
    /\ UNCHANGED <<active, idleSince, call>>
    /\ UNCHANGED <<now, stopchan, stoppedchan, pc, check, sleepLeft, sink,
                   panicking, aborted, exitReason, teardowns, ticks, err>>

---------------------------------------------------------------------------
(* Check Scheduler: the runCheck goroutine of check c *)

\* The timer of time.After(10 * time.Second) has fired at second t.
TimerFired(created, t) == t >= created + TimeoutSeconds

\* The timer channel created once, at second 0, when the first startChecks
\* ran, and not anew at every select.
AfterCreatedOnce(c) == 0

\* The second at which the timer channel polled by the select was created:
\* time.After is evaluated anew every time the select statement is entered.
AfterCreated(c) == now

\* The communication cases of the select that can proceed now.  The default
\* case is taken only when there is none.
ReadyCases(c) ==
    (IF stopchan = "closed" THEN {"stop"} ELSE {})
        \cup (IF TimerFired(AfterCreated(c), now) THEN {"timeout"} ELSE {})

\* The check due from the second of nextrun on, not after it.
DueFromNextrun(t, chk) == t >= chk.nextrun

\* time.Now().Unix() > check.nextrun
Due(t, chk) == t > chk.nextrun

\* A panic that runs the deferred close only, not the deferred teardown.
UnwindNoTeardown(c) ==
    /\ pc' = [pc EXCEPT ![c] = "closing"]
    /\ panicking' = [panicking EXCEPT ![c] = TRUE]

\* What a panic in the goroutine leaves: the deferred calls run next.
Unwind(c) ==
    /\ pc' = [pc EXCEPT ![c] = "teardown"]
    /\ panicking' = [panicking EXCEPT ![c] = TRUE]

\* case <-stopchan / case <-time.After: return, the deferred calls run next.
loopReturn(c) ==
    /\ ~aborted
    /\ pc[c] = "select"
    /\ \E case \in ReadyCases(c) :
           exitReason' = [exitReason EXCEPT ![c] = case]
    /\ pc' = [pc EXCEPT ![c] = "teardown"]
    /\ idleSince' = [idleSince EXCEPT ![c] = 0]
    /\ UNCHANGED <<active, call>>
    /\ UNCHANGED <<now, supPc, waitIdx, stopchan, stoppedchan, check,
                   sleepLeft, sink, panicking, aborted, teardowns, ticks,
                   err>>

\* default, the check is due: keep the last result, start the script.
beginTick(c) ==
    /\ ~aborted
    /\ pc[c] = "select"
    /\ ReadyCases(c) = {}
    /\ Due(now, check[c])
    /\ check' = [check EXCEPT ![c].resultLast = check[c].resultCurrent,
                              ![c].resultCurrent = <<>>]
    /\ err' = [err EXCEPT ![c] = NoErr]
    /\ pc' = [pc EXCEPT ![c] = "script"]
    /\ idleSince' = [idleSince EXCEPT ![c] = 0]
    /\ UNCHANGED <<active, call>>
    /\ UNCHANGED <<now, supPc, waitIdx, stopchan, stoppedchan, sleepLeft,
                   sink, panicking, aborted, exitReason, teardowns, ticks>>

\* default, the check is not due: nothing but the sleep.
idlePoll(c) ==
    /\ ~aborted
    /\ pc[c] = "select"
    /\ ReadyCases(c) = {}
    /\ ~Due(now, check[c])
    /\ pc' = [pc EXCEPT ![c] = "sleep"]
    /\ sleepLeft' = [sleepLeft EXCEPT ![c] = SleepSeconds]
    /\ UNCHANGED <<active, idleSince, call>>
    /\ UNCHANGED <<now, supPc, waitIdx, stopchan, stoppedchan, check, sink,
                   panicking, aborted, exitReason, teardowns, ticks, err>>

\* The non-empty lines of strings.Split(result, "\n"), in order.
ResultLines(result) == SelectSeq(Split(result, "\n"), LAMBDA line : line # <<>>)

\* The loop over resultLine from line i on: convertResult and then
\* registerMetricsForCheck for every line, until one of them panics.
RECURSIVE RecordLines(_, _, _, _, _)
RecordLines(cfg, chk, vec, lines, i) ==
    IF i > Len(lines) THEN [check |-> chk, sink |-> vec, panic |-> FALSE]
    ELSE LET conv == convertResult(lines[i])
             reg == registerMetricsForCheck(cfg, chk, vec, conv.value,
                                            conv.labels)
         IN  IF conv.panic
             THEN [check |-> chk, sink |-> vec, panic |-> TRUE]
             ELSE IF reg.panic
                  THEN reg
                  ELSE RecordLines(cfg, reg.check, reg.sink, lines, i + 1)

\* runBashScript returns: err is kept; on a nil err every line of the result
\* is recorded; on an error nothing is (the warning is logged).
runScript(c) ==
    /\ ~aborted
    /\ pc[c] = "script"
    /\ \E run \in ProcessRuns(c) :
           LET r == runBashScript(run)
               rec == IF r.failed
                      THEN [check |-> check[c], sink |-> sink[c],
                            panic |-> FALSE]
                      ELSE RecordLines(CheckCfg[c], check[c], sink[c],
                                       ResultLines(r.result), 1)
           IN  /\ err' = [err EXCEPT ![c] = [failed |-> r.failed,
                                             detail |-> r.detail]]
               /\ check' = [check EXCEPT ![c] = rec.check]
               /\ sink' = [sink EXCEPT ![c] = rec.sink]
               /\ IF rec.panic
                  THEN Unwind(c)
                  ELSE /\ pc' = [pc EXCEPT ![c] = "cleanup"]
                       /\ UNCHANGED panicking
    /\ UNCHANGED <<active, idleSince, call>>
    /\ UNCHANGED <<now, supPc, waitIdx, stopchan, stoppedchan, sleepLeft,
                   aborted, exitReason, teardowns, ticks>>

\* The next run set to the interval, not moved on by it.
nextRunAssigned(cfg, chk) == [chk EXCEPT !.nextrun = cfg.Interval]

\* check.nextrun += int64(check.Interval)
nextRunAdvanced(cfg, chk) == [chk EXCEPT !.nextrun = @ + cfg.Interval]

\* The end of a tick: cleanupUnusedDimensions, nextrun += Interval, and the
\* loop goes to its sleep.
finishTick(c) ==
    /\ ~aborted
    /\ pc[c] = "cleanup"
    /\ LET cl == cleanupUnusedDimensions(CheckCfg[c], check[c], sink[c])
       IN  /\ sink' = [sink EXCEPT ![c] = cl.sink]
           /\ IF cl.panic
              THEN Unwind(c)
                   /\ UNCHANGED <<check, sleepLeft, ticks, idleSince>>
              ELSE /\ check' = [check EXCEPT ![c] =
                                    nextRunAdvanced(CheckCfg[c], check[c])]
                   /\ pc' = [pc EXCEPT ![c] = "sleep"]
                   /\ sleepLeft' = [sleepLeft EXCEPT ![c] = SleepSeconds]
                   /\ ticks' = [ticks EXCEPT ![c] = @ + 1]
                   /\ idleSince' = [idleSince EXCEPT ![c] = now]
                   /\ UNCHANGED panicking
    /\ UNCHANGED <<active, call>>
    /\ UNCHANGED <<now, supPc, waitIdx, stopchan, stoppedchan, aborted,
                   exitReason, teardowns, err>>

\* time.Sleep(1 * time.Second) is over: back to the select.
wake(c) ==
    /\ ~aborted
    /\ pc[c] = "sleep"
    /\ sleepLeft[c] = 0
    /\ pc' = [pc EXCEPT ![c] = "select"]
    /\ UNCHANGED <<active, idleSince, call>>
    /\ UNCHANGED <<now, supPc, waitIdx, stopchan, stoppedchan, check,
                   sleepLeft, sink, panicking, aborted, exitReason, teardowns,
                   ticks, err>>

\* The deferred teardown: unregisterMetricsForCheck(&check).
teardown(c) ==
    /\ ~aborted
    /\ pc[c] = "teardown"
    /\ LET r == unregisterMetricsForCheck(CheckCfg[c], check[c], sink[c])
       IN  /\ check' = [check EXCEPT ![c] = r.check]
           /\ sink' = [sink EXCEPT ![c] = r.sink]
    /\ teardowns' = [teardowns EXCEPT ![c] = @ + 1]
    /\ pc' = [pc EXCEPT ![c] = "closing"]
    /\ UNCHANGED <<active, idleSince, call>>
    /\ UNCHANGED <<now, supPc, waitIdx, stopchan, stoppedchan, sleepLeft,
                   panicking, aborted, exitReason, ticks, err>>

\* close(check.stoppedchan) panics when the channel is closed already.
CloseFaults(c) == stoppedchan[c] = "closed"

\* The deferred close(check.stoppedchan), the last thing runCheck does.  The
\* goroutine ends, and its copy of the check with it; when it was panicking,
\* or the close panics, the panic is not recovered and the process ends.
closeStopped(c) ==
    /\ ~aborted
    /\ pc[c] = "closing"
    /\ stoppedchan' = [stoppedchan EXCEPT ![c] = "closed"]
    /\ IF panicking[c] \/ CloseFaults(c)
       THEN /\ aborted' = TRUE
            /\ pc' = [pc EXCEPT ![c] = "crashed"]
            /\ UNCHANGED <<check, err>>
       ELSE /\ pc' = [pc EXCEPT ![c] = "stopped"]
            /\ check' = [check EXCEPT ![c] = NewCheck(c)]
            /\ err' = [err EXCEPT ![c] = NoErr]
            /\ UNCHANGED aborted
    /\ idleSince' = [idleSince EXCEPT ![c] = 0]
    /\ UNCHANGED <<active, call>>
    /\ UNCHANGED <<now, supPc, waitIdx, stopchan, sleepLeft, sink, panicking,
                   exitReason, teardowns, ticks>>

---------------------------------------------------------------------------
(* Time *)

\* One second passes: every sleeper has a second less to sleep.  The clock
\* counts from the first startChecks.
tickClock ==
    /\ ~aborted
    /\ stopchan # "nil"
    /\ now < MaxTime \/ \E c \in Checks : sleepLeft[c] > 0
    /\ now' = IF now < MaxTime THEN now + 1 ELSE now
    /\ sleepLeft' = [c \in Checks |->
                        IF sleepLeft[c] > 0 THEN sleepLeft[c] - 1 ELSE 0]
    /\ UNCHANGED <<active, idleSince, call>>
    /\ UNCHANGED <<supPc, waitIdx, stopchan, stoppedchan, pc, check, sink,
                   panicking, aborted, exitReason, teardowns, ticks, err>>

---------------------------------------------------------------------------

Next ==
    \/ startChecks
    \/ stopChecksClose
    \/ stopChecksWait
    \/ tickClock
    \/ \E c \in Checks :
           \/ loopReturn(c)
           \/ beginTick(c)
           \/ idlePoll(c)
           \/ runScript(c)
           \/ finishTick(c)
           \/ wake(c)
           \/ teardown(c)
           \/ closeStopped(c)

Spec == Init /\ [][Next]_vars

\* The scheduling the Go runtime gives: a goroutine that can take a step
\* takes it, a script that was started returns, and time goes on.
Fairness ==
    /\ WF_vars(tickClock)
    /\ WF_vars(stopChecksWait)
    /\ \A c \in Checks :
           /\ WF_vars(loopReturn(c))
           /\ WF_vars(beginTick(c))
           /\ WF_vars(idlePoll(c))
           /\ WF_vars(runScript(c))
           /\ WF_vars(finishTick(c))
           /\ WF_vars(wake(c))
           /\ WF_vars(teardown(c))
           /\ WF_vars(closeStopped(c))

LiveSpec == Init /\ [][Next]_vars /\ Fairness

---------------------------------------------------------------------------
(* runBashScript and convertResult called alone, on one argument each *)

\* What cmd.Run() can produce: the script exits with code 0 or with another
\* code, with or without text on stdout and stderr, or bash is not started.
ScriptRuns ==
    {[runErr |-> e, out |-> o, stderr |-> x] :
        e \in {"", "exit status 1"},
        o \in {<<>>, Out_ax, Out_bare},
        x \in {<<>>, <<"t", "o">>}}
      \cup {[runErr |-> "fork/exec /bin/sh: no such file or directory",
              out |-> <<>>, stderr |-> <<>>]}

\* The text of a number as a script prints it.
RECURSIVE FormatNat(_)
FormatNat(n) ==
    LET digit == CHOOSE ch \in DigitChars : DigitVal(ch) = n % 10
    IN  IF n < 10 THEN <<digit>> ELSE Append(FormatNat(n \div 10), digit)

\* The values, label names and label values of the result lines.
LineValues == {0, 7, 12}

LabelNames == {<<"d">>, <<"e">>, <<"m", "n">>}

LabelValues == {<<"a">>, <<"a", "=", "b">>, <<"=">>, <<>>}

\* The lists of at most n <<name, value>> pairs with different names.
RECURSIVE PairSeqs(_)
PairSeqs(n) ==
    IF n = 0 THEN {<<>>}
    ELSE LET shorter == PairSeqs(n - 1)
         IN  shorter \cup
                 {Append(x[1], x[2]) :
                     x \in {y \in shorter \X (LabelNames \X LabelValues) :
                               /\ Len(y[1]) = n - 1
                               /\ \A i \in 1..Len(y[1]) :
                                      y[1][i][1] # y[2][1]}}

\* k1=v1,k2=v2,... for the pairs from index i on.
RECURSIVE FormatPairs(_, _)
FormatPairs(pairs, i) ==
    IF i > Len(pairs) THEN <<>>
    ELSE pairs[i][1] \o <<"=">> \o pairs[i][2]
             \o (IF i < Len(pairs) THEN <<",">> ELSE <<>>)
             \o FormatPairs(pairs, i + 1)

\* The line v|k1=v1,k2=v2,...
FormatLine(n, pairs) == FormatNat(n) \o <<"|">> \o FormatPairs(pairs, 1)

\* The lines convertResult is called on: the lines of the format, bare
\* numbers, and lines that are not of the format.
ResultTexts ==
    {FormatLine(n, pairs) :
        n \in LineValues, pairs \in PairSeqs(MaxLabels) \ {<<>>}}
      \cup {FormatNat(n) : n \in LineValues}
      \cup {Out_ax, Out_noLabel, Out_noEq}

CallsInit ==
    /\ Built
    /\ \/ \E run \in ScriptRuns :
              call = [op |-> "runBashScript", arg |-> run, done |-> FALSE]
       \/ \E line \in ResultTexts :
              call = [op |-> "convertResult", arg |-> line, done |-> FALSE]

\* result, err := runBashScript(check)
callRunBashScript ==
    /\ call.op = "runBashScript"
    /\ ~call.done
    /\ call' = [op |-> call.op, arg |-> call.arg, done |-> TRUE,
                ret |-> runBashScript(call.arg)]
    /\ UNCHANGED <<active, now, supPc, waitIdx, stopchan, stoppedchan, pc,
                   check, sleepLeft, sink, panicking, aborted, exitReason,
                   teardowns, ticks, idleSince, err>>

\* value, labels := convertResult(line)
callConvertResult ==
    /\ call.op = "convertResult"
    /\ ~call.done
    /\ call' = [op |-> call.op, arg |-> call.arg, done |-> TRUE,
                ret |-> convertResult(call.arg)]
    /\ UNCHANGED <<active, now, supPc, waitIdx, stopchan, stoppedchan, pc,
                   check, sleepLeft, sink, panicking, aborted, exitReason,
                   teardowns, ticks, idleSince, err>>

CallsNext == callRunBashScript \/ callConvertResult

CallsSpec == CallsInit /\ [][CallsNext]_vars

---------------------------------------------------------------------------
(* Shorthands of the properties *)

\* The label-sets of resultLast that have no equal label-set in resultCurrent.
StaleLabels(c) ==
    {check[c].resultLast[i] : i \in 1..Len(check[c].resultLast)}
        \ {check[c].resultCurrent[j] : j \in 1..Len(check[c].resultCurrent)}

\* This step is the reconcile of c's tick (cleanupUnusedDimensions ran).
ReconcileStep(c) == pc[c] = "cleanup" /\ pc'[c] # "cleanup"

\* stopChecks has returned.
StopReturned == supPc = "idle" /\ stopchan = "closed"

\* The runCheck goroutine of c has left its loop.
LoopLeft(c) == pc[c] \in {"teardown", "closing", "stopped", "crashed"}

---------------------------------------------------------------------------
(* C1 *)

\* C1 as stated: at the reconcile of every tick the sink loses exactly the
\* series whose label-set is in resultLast and not in resultCurrent, whatever
\* resultCurrent holds, also when it is empty.
C1_ReconcileAlways ==
    [][\A c \in Checks : ReconcileStep(c) =>
          sink'[c].series =
              {s \in sink[c].series : s.labels \notin StaleLabels(c)}]_vars

\* C1 amended: when the tick recorded at least one observation, the reconcile
\* deletes exactly the series whose label-set is in resultLast and not in
\* resultCurrent and leaves every other series and its value; when it
\* recorded none, the reconcile deletes nothing.
C1_Reconcile ==
    [][\A c \in Checks : ReconcileStep(c) =>
          /\ sink'[c].registered = sink[c].registered
          /\ sink'[c].names = sink[c].names
          /\ sink'[c].series =
                 IF check[c].resultCurrent = <<>>
                 THEN sink[c].series
                 ELSE {s \in sink[c].series : s.labels \notin StaleLabels(c)}]_vars

\* A tick has just ended whose reconcile deleted a stale series and kept
\* another one: resultLast holds a label-set that resultCurrent does not,
\* and exactly the label-sets of resultCurrent are live.
C1_Witness ==
    \E c \in Checks :
        /\ pc[c] = "sleep"
        /\ ticks[c] >= 2
        /\ check[c].resultCurrent # <<>>
        /\ StaleLabels(c) # {}
        /\ LiveLabels(sink[c]) # {}
        /\ LiveLabels(sink[c]) \cap StaleLabels(c) = {}

---------------------------------------------------------------------------
(* C2 *)

\* C2 as stated: once stopChecks has closed stopchan and waits, it returns.
C2_StopReturns == (supPc = "waiting") ~> (supPc = "idle")

---------------------------------------------------------------------------
(* C3 *)

\* C3 as stated: when stopChecks has returned, the loop of every active check
\* has exited and nothing of an active check is registered in the sink; and a
\* loop that has closed its stoppedchan has run its teardown before.
C3_StopWaits ==
    /\ StopReturned =>
           \A c \in active :
               /\ pc[c] \in {"stopped", "crashed"}
               /\ ~sink[c].registered
               /\ sink[c].series = {}
    /\ \A c \in Checks :
           pc[c] \in {"stopped", "crashed"} =>
               teardowns[c] >= 1 /\ check[c].metric = "nil"

---------------------------------------------------------------------------
(* C4 *)

\* C4 as stated: also after startChecks; stopChecks; startChecks no loop
\* faults by closing a stoppedchan that is closed already, and a stopChecks
\* that has returned has waited for every loop.
C4_RestartSafe ==
    /\ \A c \in Checks : pc[c] = "closing" => ~CloseFaults(c)
    /\ \A c \in Checks : pc[c] = "crashed" => panicking[c]
    /\ StopReturned => \A c \in active : pc[c] = "stopped"

---------------------------------------------------------------------------
(* C5 *)

\* C5 as stated: no script result makes a loop panic, so no tick brings the
\* process down.
C5_Contained == \A c \in Checks : ~panicking[c]

---------------------------------------------------------------------------
(* C6 *)

\* C6: a loop that still runs has not called unregisterMetricsForCheck, and a
\* loop that has left (by the stop signal, the forced stop or a panic) has
\* called it exactly once when it closes its stoppedchan and afterwards.
C6_TeardownOnce ==
    \A c \in Checks :
        /\ pc[c] \in {"none", "select", "script", "cleanup", "sleep",
                      "teardown"} => teardowns[c] = 0
        /\ pc[c] \in {"closing", "stopped", "crashed"} => teardowns[c] = 1

\* A loop has returned on the stop signal and has torn down once.
C6_Witness ==
    \E c \in Checks :
        pc[c] = "stopped" /\ exitReason[c] = "stop" /\ teardowns[c] = 1

---------------------------------------------------------------------------
(* C7 *)

\* C7: in every state, unregisterMetricsForCheck leaves nothing registered
\* for the check and check.metric nil, and a second call changes neither;
\* and so it is after the loop's own teardown.
C7_TeardownIdempotent ==
    \A c \in Checks :
        LET once == unregisterMetricsForCheck(CheckCfg[c], check[c], sink[c])
            twice == unregisterMetricsForCheck(CheckCfg[c], once.check,
                                               once.sink)
        IN  /\ once.check.metric = "nil"
            /\ once.sink = NoVec
            /\ twice = once
            /\ pc[c] = "closing" =>
                   check[c].metric = "nil" /\ sink[c] = NoVec

\* The teardown of a Gauge check that had recorded observations is done.
C7_Witness ==
    \E c \in Checks :
        /\ pc[c] = "closing"
        /\ CheckCfg[c].MetricType = "Gauge"
        /\ check[c].resultCurrent # <<>>
        /\ sink[c] = NoVec

---------------------------------------------------------------------------
(* C8 *)

\* C8: no step of a tick whose script fails changes the sink: not the start
\* of the tick, not the return of runBashScript with an error, not the
\* cleanup that follows it.
C8_FailedTickNoChange ==
    [][\A c \in Checks :
          (\/ pc[c] = "select" /\ pc'[c] = "script"
           \/ pc[c] = "script" /\ err'[c].failed
           \/ pc[c] = "cleanup" /\ err[c].failed)
              => sink'[c] = sink[c]]_vars

\* A tick with a failed script has ended, after a tick that recorded
\* observations, and the series are still live.
C8_Witness ==
    \E c \in Checks :
        /\ pc[c] = "sleep"
        /\ err[c].failed
        /\ check[c].resultLast # <<>>
        /\ check[c].resultCurrent = <<>>
        /\ sink[c].series # {}

---------------------------------------------------------------------------
(* C9 *)

\* C9 as stated: for a check that is no Gauge nothing is ever registered and
\* check.metric stays nil, and its loop keeps running until the stop signal:
\* it does not panic and leaves only when stopchan is closed.
C9_Degrades ==
    \A c \in Checks :
        CheckCfg[c].MetricType # "Gauge" =>
            /\ sink[c] = NoVec
            /\ check[c].metric = "nil"
            /\ ~panicking[c]
            /\ LoopLeft(c) => stopchan = "closed"

---------------------------------------------------------------------------
(* C10 *)

\* The loop of c has only polled for ten seconds (since its start or the
\* end of its last tick), and the check is not due.
IdleTenSeconds(c) ==
    /\ pc[c] \in {"select", "sleep"}
    /\ now - idleSince[c] >= TimeoutSeconds
    /\ ~(now > check[c].nextrun)

---------------------------------------------------------------------------
(* C11 *)

\* C11 as stated: when stopchan is closed while the loop of a check is in
\* its sleep, the loop starts no further tick, also when the check is due
\* (from the sleep it goes to the select and from there only to its return),
\* and it reaches Stopped: teardown done and stoppedchan closed without a
\* fault.
C11_StopInSleep ==
    /\ [][\A c \in Checks :
             (stopchan = "closed" /\ pc[c] \in {"sleep", "select"}) =>
                 pc'[c] \in {"sleep", "select", "teardown"}]_vars
    /\ \A c \in Checks :
           (stopchan = "closed" /\ pc[c] = "sleep") ~> (pc[c] = "stopped")

---------------------------------------------------------------------------
(* C12 *)

\* Label-sets and values of observations.
ObservedLabels ==
    {EmptyLabels, {<<<<"d">>, <<"a">>>>}, {<<<<"d">>, <<"b">>>>},
     {<<<<"e">>, <<"a">>>>}}

ObservedValues == {1, 2}

\* C12: the sink never holds two series for one label-set; and whenever a
\* tick of a Gauge check is about to record its observations, recording one
\* and then one more with the same labels leaves exactly one live series
\* for the label-set, holding the value of the later one, and leaves the
\* other series alone; with the same value the second recording changes
\* nothing in the sink.
C12_RecordTwice ==
    \A c \in Checks :
        /\ \A s, t \in sink[c].series : s.labels = t.labels => s = t
        /\ (CheckCfg[c].MetricType = "Gauge" /\ pc[c] = "script") =>
               \A labels \in ObservedLabels : \A v1 \in ObservedValues :
                   LET r1 == registerMetricsForCheck(CheckCfg[c], check[c],
                                                     sink[c], v1, labels)
                   IN  ~r1.panic =>
                           \A v2 \in ObservedValues :
                               LET r2 == registerMetricsForCheck(
                                             CheckCfg[c], r1.check, r1.sink,
                                             v2, labels)
                               IN  /\ ~r2.panic
                                   /\ {s \in r2.sink.series :
                                              s.labels = labels}
                                          = {[labels |-> labels,
                                              value |-> v2]}
                                   /\ {s \in r2.sink.series :
                                              s.labels # labels}
                                          = {s \in sink[c].series :
                                                  s.labels # labels}
                                   /\ v1 = v2 => r2.sink = r1.sink

\* A tick has recorded the label-set d=b twice, with the values 1 and 2: one
\* series is live for it and holds 2.
C12_Witness ==
    /\ pc["disk"] = "cleanup"
    /\ check["disk"].resultCurrent
           = <<{<<<<"d">>, <<"b">>>>}, {<<<<"d">>, <<"b">>>>}>>
    /\ {s \in sink["disk"].series : s.labels = {<<<<"d">>, <<"b">>>>}}
           = {[labels |-> {<<<<"d">>, <<"b">>>>}, value |-> 2]}

---------------------------------------------------------------------------
(* C13 *)

\* C13: runBashScript returns no error exactly when cmd.Run() returned none
\* (exit code 0), and then the result is the captured stdout; otherwise the
\* result is empty and the one error carries stdout if stdout is not empty,
\* else stderr if stderr is not empty, else the error of cmd.Run().
C13_ScriptResult ==
    (call.op = "runBashScript" /\ call.done) =>
        LET run == call.arg
            r == call.ret
        IN  /\ ~r.failed <=> run.runErr = ""
            /\ ~r.failed => r.result = run.out /\ r.detail = <<>>
            /\ r.failed =>
                   /\ r.result = <<>>
                   /\ run.out # <<>> => r.detail = run.out
                   /\ (run.out = <<>> /\ run.stderr # <<>>) =>
                          r.detail = run.stderr
                   /\ (run.out = <<>> /\ run.stderr = <<>>) =>
                          r.detail = <<run.runErr>>

\* runBashScript has returned for a script that failed with text on stdout
\* and on stderr: the error carries stdout.
C13_Witness ==
    /\ call.op = "runBashScript"
    /\ call.done
    /\ call.arg.runErr # ""
    /\ call.arg.out = Out_ax
    /\ call.arg.stderr = <<"t", "o">>
    /\ call.ret = [result |-> <<>>, failed |-> TRUE, detail |-> Out_ax]

---------------------------------------------------------------------------
(* C14 *)

---------------------------------------------------------------------------
(* C15 *)

\* The runCheck goroutine of c exists, with its copy of the check.
LoopExists(c) == pc[c] \notin {"none", "stopped"}

\* This step is the end of a completed tick of c.
TickCompletes(c) == pc[c] = "cleanup" /\ pc'[c] = "sleep"

\* C15: the nextrun of a loop's check is increased by exactly Interval by the
\* step that completes a tick, after a script that succeeded or failed, and
\* is left alone by every other step, of this loop, of another loop, of the
\* supervisor or of the clock; so it never decreases, and after k completed
\* ticks it is the initial value plus k * Interval.
C15_NextrunAdvances ==
    [][\A c \in Checks :
          /\ (LoopExists(c) /\ LoopExists(c)') =>
                 /\ check'[c].nextrun >= check[c].nextrun
                 /\ check'[c].nextrun =
                        IF TickCompletes(c)
                        THEN check[c].nextrun + CheckCfg[c].Interval
                        ELSE check[c].nextrun
          /\ LoopExists(c)' =>
                 check'[c].nextrun =
                     NewCheck(c).nextrun + ticks'[c] * CheckCfg[c].Interval]_vars

\* A loop has completed two ticks, the second with a failed script, and its
\* nextrun has moved on by two intervals.
C15_Witness ==
    \E c \in Checks :
        /\ pc[c] = "sleep"
        /\ ticks[c] = 2
        /\ err[c].failed
        /\ check[c].nextrun = NewCheck(c).nextrun + 2 * CheckCfg[c].Interval

---------------------------------------------------------------------------
(* C16 *)

\* C16: a loop goes from its select to the script only when the second of
\* the clock is greater than the check's nextrun; an iteration in which it is
\* not changes neither the check (resultLast, resultCurrent, nextrun) nor
\* the sink, starts no script, and goes to the sleep (or, on the stop
\* signal, to the return).
C16_OnlyWhenDue ==
    [][\A c \in Checks :
          (pc[c] = "select" /\ pc'[c] # "select") =>
              /\ pc'[c] = "script" => now > check[c].nextrun
              /\ now <= check[c].nextrun =>
                     /\ pc'[c] \in {"sleep", "teardown"}
                     /\ stopchan = "open" => pc'[c] = "sleep"
                     /\ check'[c] = check[c]
                     /\ sink'[c] = sink[c]]_vars

\* A loop that has completed a tick has polled in the very second of its
\* nextrun and has gone to its sleep.
C16_Witness ==
    \E c \in Checks :
        /\ pc[c] = "sleep"
        /\ sleepLeft[c] = SleepSeconds
        /\ ticks[c] >= 1
        /\ now = check[c].nextrun
        /\ idleSince[c] < now

---------------------------------------------------------------------------
(* C17 *)

\* C17 as stated: between the reconcile of a tick of a Gauge check that
\* recorded at least one observation and the start of the next tick, the
\* label-sets live in the sink are exactly the label-sets of resultCurrent,
\* whatever the ticks before were.
C17_NoStaleSurvives ==
    \A c \in Checks :
        (/\ CheckCfg[c].MetricType = "Gauge"
         /\ pc[c] \in {"sleep", "select"}
         /\ ticks[c] >= 1
         /\ check[c].resultCurrent # <<>>)
            => LiveLabels(sink[c]) =
                   {check[c].resultCurrent[j] :
                       j \in 1..Len(check[c].resultCurrent)}

---------------------------------------------------------------------------
(* C18 *)

\* Every label-set of c's resultCurrent has a live series in the sink.
CurrentIsLive(c) ==
    \A j \in 1..Len(check[c].resultCurrent) :
        check[c].resultCurrent[j] \in LiveLabels(sink[c])

\* The goroutine of c is in its loop: it has not left it for the teardown.
InLoop(c) == pc[c] \in {"select", "script", "cleanup", "sleep"}

\* C18 as stated: in every state, for every check, every label-set of
\* resultCurrent has a live series in the sink.
C18_CurrentLiveAlways == \A c \in Checks : CurrentIsLive(c)

\* C18 amended: for every Gauge check whose goroutine is in its loop, every
\* label-set of resultCurrent has a live series in the sink.  (A check of
\* another type records label-sets in resultCurrent and never has a series;
\* a goroutine that has left its loop keeps resultCurrent while the teardown
\* unregisters the series.)
C18_CurrentIsLive ==
    \A c \in Checks :
        (CheckCfg[c].MetricType = "Gauge" /\ InLoop(c)) => CurrentIsLive(c)

\* A tick of a Gauge check has recorded two different label-sets, and both
\* are live.
C18_Witness ==
    \E c \in Checks :
        /\ CheckCfg[c].MetricType = "Gauge"
        /\ pc[c] = "cleanup"
        /\ Len(check[c].resultCurrent) = 2
        /\ check[c].resultCurrent[1] # check[c].resultCurrent[2]
        /\ CurrentIsLive(c)

---------------------------------------------------------------------------
(* C19 *)

\* In this state an observation of c with these labels uses the vector that
\* is registered: no new one is made, none is registered, the label names
\* stay and only the series of the labels is set.
ReusesVector(c, labels) ==
    LET r == registerMetricsForCheck(CheckCfg[c], check[c], sink[c], 1, labels)
    IN  /\ ~r.panic
        /\ r.check.metric = check[c].metric
        /\ r.sink.registered
        /\ r.sink.names = sink[c].names
        /\ r.sink.series = SetValue(sink[c].series, labels, 1)

\* C19: a check has a registered vector exactly when its check.metric is not
\* nil, and no check that is no Gauge ever has one; a vector gets registered
\* only by a tick of a check whose check.metric is nil, it is unregistered
\* only by the teardown, and as long as it is registered every observation
\* uses it: its label names never change.
C19_CreateOnce ==
    /\ [](\A c \in Checks :
             /\ CheckCfg[c].MetricType # "Gauge" => ~sink[c].registered
             /\ InLoop(c) =>
                    /\ sink[c].registered <=> check[c].metric # "nil"
                    /\ sink[c].registered =>
                           \A labels \in ObservedLabels :
                               CanWith(sink[c], labels) =>
                                   ReusesVector(c, labels))
    /\ [][\A c \in Checks :
             /\ (~sink[c].registered /\ sink'[c].registered) =>
                    /\ pc[c] = "script"
                    /\ check[c].metric = "nil"
                    /\ check'[c].metric # "nil"
             /\ (sink[c].registered /\ sink'[c].registered) =>
                    sink'[c].names = sink[c].names
             /\ (sink[c].registered /\ ~sink'[c].registered) =>
                    pc[c] = "teardown"]_vars

\* A later tick of a Gauge check has recorded its observations in the vector
\* an earlier tick registered: a series of the earlier tick is still in it.
C19_Witness ==
    \E c \in Checks :
        /\ pc[c] = "cleanup"
        /\ ticks[c] >= 1
        /\ check[c].metric # "nil"
        /\ sink[c].registered
        /\ check[c].resultCurrent # <<>>
        /\ CurrentIsLive(c)
        /\ \E s \in sink[c].series :
               \A j \in 1..Len(check[c].resultCurrent) :
                   check[c].resultCurrent[j] # s.labels

---------------------------------------------------------------------------
(* C20 *)

\* resultLast of c holds a stale label-set twice and, after the second
\* occurrence, another stale label-set: the Delete of the second occurrence
\* finds no series, and the reconcile has more to delete after it.
MissThenStale(c) ==
    \E i, j, k \in 1..Len(check[c].resultLast) :
        /\ i < j /\ j < k
        /\ check[c].resultLast[i] = check[c].resultLast[j]
        /\ check[c].resultLast[k] # check[c].resultLast[j]
        /\ {check[c].resultLast[j], check[c].resultLast[k]}
               \subseteq StaleLabels(c)

\* C20: the reconcile of a Gauge check in which a Delete finds no series
\* does not fault: it goes on to the end of resultLast, so that no stale
\* label-set is left live, the tick completes, nextrun is advanced and the
\* loop goes to its sleep.
C20_MissNotFatal ==
    [][\A c \in Checks :
          (/\ ReconcileStep(c)
           /\ CheckCfg[c].MetricType = "Gauge"
           /\ cleanupUnusedDimensions(CheckCfg[c], check[c],
                                      sink[c]).misses > 0)
              => /\ pc'[c] = "sleep"
                 /\ ~panicking'[c]
                 /\ ~aborted'
                 /\ check'[c].nextrun =
                        check[c].nextrun + CheckCfg[c].Interval
                 /\ sink'[c].series =
                        {s \in sink[c].series :
                            s.labels \notin StaleLabels(c)}]_vars

\* A tick has ended whose reconcile had a Delete that found nothing and a
\* stale label-set after it: no stale label-set is live any more.
C20_Witness ==
    \E c \in Checks :
        /\ pc[c] = "sleep"
        /\ ticks[c] >= 2
        /\ check[c].resultCurrent # <<>>
        /\ MissThenStale(c)
        /\ LiveLabels(sink[c]) \cap StaleLabels(c) = {}
        /\ check[c].nextrun =
               NewCheck(c).nextrun + ticks[c] * CheckCfg[c].Interval

====
